---- MODULE Spec2Model ----
(***************************************************************************)
(* IT asset inventory: the asset lifecycle handlers (routes/assets.py,     *)
(* routes/employees.py) and the warranty alert classifier                  *)
(* (services/warranty_service.py), as a state machine over the database    *)
(* tables the handlers read and write.                                     *)
(*                                                                         *)
(* Time is counted in whole days: date.today() and datetime.utcnow() are   *)
(* both the variable now.  An Optional value is a sequence of length 0     *)
(* (None) or 1.                                                            *)
(***************************************************************************)
EXTENDS Integers, Sequences, FiniteSets, TLC

VARIABLES
    assets,      \* table assets: id -> row (present = FALSE: no such row)
    employees,   \* table employees: id -> row
    repairs,     \* table repairs: asset id -> number of Repair rows
    audit,       \* table audit_logs, in insertion order
    users,       \* table users: the e-mail addresses of active admins/technicians
    history,     \* table warranty_notifications: set of rows
    now,         \* the current day
    runs,        \* the classifier coroutines: run id -> position and local variables
    deliveries,  \* warranty alerts the notifier delivered: [asset_id, type, at, call]
    pending,     \* the assign_asset coroutine that awaits the send of its e-mail
    phase,       \* history variable: what the runs did since the day or the data changed
    last         \* the last request to a route and the status code of its response

lifecycleVars == <<assets, employees, repairs, audit>>
classifierVars == <<users, history, runs, deliveries>>
vars == <<assets, employees, repairs, audit, users, history, now, runs, deliveries,
          pending, phase, last>>

---------------------------------------------------------------------------
(* Bounds of the model *)

AssetIds == {1, 2}
EmployeeIds == {1, 2}
MaxAudit == 3
\* the days on which something happens; their differences cover each cooldown
\* window and the day after it (7, 8, 14, 15, 30, 31)
Calendar == {0, 1, 8, 15, 16, 31}
\* the first days of the calendar, for the specifications of runs on one day
CalendarShort == {0, 1}

---------------------------------------------------------------------------
(* Values *)

NULL == <<>>
Some(x) == <<x>>

\* models.py AssetStatus
ACTIVE == "active"
AVAILABLE == "available"
REPAIR == "repair"
DECOMMISSIONED == "decommissioned"
AssetStatus == {ACTIVE, AVAILABLE, REPAIR, DECOMMISSIONED}

\* schemas.py AssetDecommission: reason: str = Field(..., min_length=10)
ReasonMinLength == 10
ReasonInputs == {"too short", "ten chars."}
\* variant of ValidReason with ">" in place of ">="
ValidReasonStrict(reason) == Len(reason) > ReasonMinLength
ValidReason(reason) == Len(reason) >= ReasonMinLength

\* warranty_end values a request may carry (days), None included; the requests
\* of the lifecycle specification carry none, the dates are in the
\* specifications of the classifier
WarrantyInputsLifecycle == {NULL}
WarrantyInputsClassifier == {NULL, Some(-1), Some(31), Some(91)}

\* the fields of AssetUpdate the model keeps
UpdateFields == {"status", "warranty_end"}

\* the AssetUpdate requests over a set W of warranty_end values: the fields that
\* are set (exclude_unset) and their values
AssetUpdates(W) ==
    {[fields |-> {}, status |-> AVAILABLE, warranty_end |-> NULL]}
    \cup {[fields |-> {"status"}, status |-> st, warranty_end |-> NULL] :
             st \in AssetStatus}
    \cup {[fields |-> {"warranty_end"}, status |-> AVAILABLE, warranty_end |-> w] :
             w \in W}
    \cup {[fields |-> UpdateFields, status |-> st, warranty_end |-> w] :
             st \in AssetStatus, w \in W}

NoAsset ==
    [present |-> FALSE, status |-> AVAILABLE, assigned_to |-> NULL,
     assigned_date |-> NULL, decommission_date |-> NULL,
     decommission_reason |-> NULL, warranty_end |-> NULL]

NoEmployee == [present |-> FALSE, is_active |-> FALSE]

\* log_action: one AuditLog row added to the session
log_action(log, action, entity_type, entity_id, changes, asset_id) ==
    Append(log, [action |-> action, entity_type |-> entity_type,
                 entity_id |-> entity_id, changes |-> changes,
                 asset_id |-> asset_id])

AuditRoom == Len(audit) < MaxAudit

---------------------------------------------------------------------------
(* routes/assets.py *)

\* the id the database gives a new asset row: one more than the largest id in
\* the table (SQLite rowid; config.py DATABASE_URL)
NextAssetId(tbl) ==
    LET ids == {a \in AssetIds : tbl[a].present}
    IN  IF ids = {} THEN 1
        ELSE 1 + (CHOOSE a \in ids : \A b \in ids : b <= a)

\* json.dumps(asset_data.model_dump()) in log_action: a date value raises
\* TypeError, None is serialised
Serialisable(w) == w = NULL

\* create_asset: a new row with status AVAILABLE is committed; then a CREATE
\* audit row, unless log_action raises on the warranty_end of the request
create_asset(a, w) ==
    /\ a = NextAssetId(assets)
    /\ Serialisable(w) => AuditRoom
    /\ assets' = [assets EXCEPT ![a] = [NoAsset EXCEPT !.present = TRUE,
                                                     !.warranty_end = w]]
    /\ audit' = IF Serialisable(w)
                THEN log_action(audit, "CREATE", "asset", Some(a),
                                [warranty_end |-> w], Some(a))
                ELSE audit
    /\ UNCHANGED <<employees, repairs, now>>
    /\ UNCHANGED classifierVars

\* the value update_asset reads and writes for one field
FieldOf(row, f) == IF f = "status" THEN row.status ELSE row.warranty_end
SuppliedValue(f, st, w) == IF f = "status" THEN st ELSE w

\* variant of ChangedFields that takes every supplied field as changed
ChangedFieldsSupplied(row, fields, st, w) == fields

\* the fields of the request whose value differs from the stored one
ChangedFields(row, fields, st, w) ==
    {f \in fields : FieldOf(row, f) # SuppliedValue(f, st, w)}

\* str(value) as update_asset writes it in the diff: "None", the member of the
\* enum AssetStatus with the name of its class, the date by its day
str(f, v) ==
    IF f = "status"
    THEN IF v = ACTIVE THEN "AssetStatus.ACTIVE"
         ELSE IF v = AVAILABLE THEN "AssetStatus.AVAILABLE"
         ELSE IF v = REPAIR THEN "AssetStatus.REPAIR"
         ELSE "AssetStatus.DECOMMISSIONED"
    ELSE IF v = NULL THEN "None" ELSE ToString(v[1])

\* update_asset: every supplied field that differs is set, whatever it is;
\* one UPDATE audit row when something changed
update_asset(a, fields, st, w) ==
    IF ~assets[a].present
    THEN UNCHANGED <<lifecycleVars, classifierVars, now>>  \* 404
    ELSE LET row == assets[a]
             changed == ChangedFields(row, fields, st, w)
             changes == [f \in changed |->
                            [old |-> str(f, FieldOf(row, f)),
                             new |-> str(f, SuppliedValue(f, st, w))]]
         IN  /\ (changed # {}) => AuditRoom
             /\ assets' = [assets EXCEPT ![a] =
                   [row EXCEPT
                      !.status = IF "status" \in changed THEN st ELSE @,
                      !.warranty_end = IF "warranty_end" \in changed THEN w ELSE @]]
             /\ audit' = IF changed # {}
                         THEN log_action(audit, "UPDATE", "asset", Some(a),
                                         changes, Some(a))
                         ELSE audit
             /\ UNCHANGED <<employees, repairs, now>>
             /\ UNCHANGED classifierVars

\* variant of Assigned that leaves the status of an asset in repair
AssignedKeepsRepair(row, e, today) ==
    [row EXCEPT !.assigned_to = e,
                !.assigned_date = Some(today),
                !.status = IF @ = REPAIR THEN @ ELSE ACTIVE]

\* the branch "Assign to employee": the fields it sets
Assigned(row, e, today) ==
    [row EXCEPT !.assigned_to = e,
                !.assigned_date = Some(today),
                !.status = ACTIVE]

\* variant of Unassigned that leaves assigned_date
UnassignedKeepsDate(row) ==
    [row EXCEPT !.assigned_to = NULL, !.status = AVAILABLE]

\* the branch "Unassign": the fields it sets
Unassigned(row) ==
    [row EXCEPT !.assigned_to = NULL,
                !.assigned_date = NULL,
                !.status = AVAILABLE]

\* assign_asset with an employee_id (e = Some(id)) or without one (e = NULL)
assign_asset(a, e) ==
    IF ~assets[a].present
    THEN UNCHANGED <<lifecycleVars, classifierVars, now>>  \* 404
    ELSE IF assets[a].status = DECOMMISSIONED
    THEN UNCHANGED <<lifecycleVars, classifierVars, now>>  \* 400
    ELSE IF e # NULL /\ ~employees[e[1]].present
    THEN UNCHANGED <<lifecycleVars, classifierVars, now>>  \* 404
    ELSE /\ AuditRoom
         /\ assets' = [assets EXCEPT ![a] =
               IF e # NULL THEN Assigned(@, e, now) ELSE Unassigned(@)]
         /\ audit' = log_action(audit, "ASSIGN", "asset", Some(a),
                                [old_employee_id |-> assets[a].assigned_to,
                                 new_employee_id |-> e], Some(a))
         /\ UNCHANGED <<employees, repairs, now>>
         /\ UNCHANGED classifierVars

\* the UPDATE a commit emits for a row the session loaded and edited: it sets
\* the columns whose value the session changed; every other column keeps what
\* the table holds at the time of the commit
Flushed(loaded, edited, stored) ==
    [f \in DOMAIN stored |-> IF edited[f] # loaded[f] THEN edited[f] ELSE stored[f]]

\* assign_asset with an employee_id, when the mail service is configured, up to
\* "await email_service.send_assignment_notification": the checks have passed,
\* the loaded row is edited in the session and nothing is written yet; the
\* coroutine keeps the row as loaded, the employee and the day, and other
\* requests run while it waits
assign_asset_suspend(a, e) ==
    /\ pending = NULL
    /\ e # NULL
    /\ assets[a].present
    /\ assets[a].status # DECOMMISSIONED
    /\ employees[e[1]].present
    /\ pending' = Some([asset |-> a, employee |-> e, to |-> e[1],
                        loaded |-> assets[a], today |-> now, overlapped |-> <<>>])
    /\ UNCHANGED <<lifecycleVars, classifierVars, now>>

\* assign_asset after the await: log_action and db.commit(), which writes the
\* edited columns to the row with that id; when the row is gone the UPDATE
\* matches nothing, the commit raises and nothing is stored
assign_asset_resume ==
    /\ pending # NULL
    /\ LET p == pending[1]
           a == p.asset
       IN  IF ~assets[a].present
           THEN UNCHANGED <<lifecycleVars, classifierVars, now>>  \* 500
           ELSE /\ AuditRoom
                /\ assets' = [assets EXCEPT ![a] =
                      Flushed(p.loaded, Assigned(p.loaded, p.employee, p.today), @)]
                /\ audit' = log_action(audit, "ASSIGN", "asset", Some(a),
                                       [old_employee_id |-> p.loaded.assigned_to,
                                        new_employee_id |-> p.employee], Some(a))
                /\ UNCHANGED <<employees, repairs, now>>
                /\ UNCHANGED classifierVars
    /\ pending' = NULL

\* variant of Decommissioned that leaves the assignment
DecommissionedKeepsAssignee(row, reason, today) ==
    [row EXCEPT !.status = DECOMMISSIONED,
                !.decommission_date = Some(today),
                !.decommission_reason = Some(reason)]

\* the fields decommission_asset sets
Decommissioned(row, reason, today) ==
    [row EXCEPT !.status = DECOMMISSIONED,
                !.decommission_date = Some(today),
                !.decommission_reason = Some(reason),
                !.assigned_to = NULL,
                !.assigned_date = NULL]

\* decommission_asset; a reason shorter than 10 characters is refused by the
\* request schema before the handler runs
decommission_asset(a, reason) ==
    IF ~ValidReason(reason)
    THEN UNCHANGED <<lifecycleVars, classifierVars, now>>  \* 422
    ELSE IF ~assets[a].present
    THEN UNCHANGED <<lifecycleVars, classifierVars, now>>  \* 404
    ELSE IF assets[a].status = DECOMMISSIONED
    THEN UNCHANGED <<lifecycleVars, classifierVars, now>>  \* 400
    ELSE /\ AuditRoom
         /\ assets' = [assets EXCEPT ![a] = Decommissioned(@, reason, now)]
         /\ audit' = log_action(audit, "DECOMMISSION", "asset", Some(a),
                                [reason |-> reason], Some(a))
         /\ UNCHANGED <<employees, repairs, now>>
         /\ UNCHANGED classifierVars

\* variant of delete_asset that also removes the history rows of the asset
delete_asset_purging(a) ==
    IF ~assets[a].present
    THEN UNCHANGED <<lifecycleVars, classifierVars, now>>
    ELSE /\ AuditRoom
         /\ assets' = [assets EXCEPT ![a] = NoAsset]
         /\ repairs' = [repairs EXCEPT ![a] = 0]
         /\ audit' = log_action(audit, "DELETE", "asset", Some(a),
                                [asset_tag |-> a], NULL)
         /\ history' = {h \in history : h.asset_id # a}
         /\ UNCHANGED <<employees, now, users, runs, deliveries>>

\* delete_asset: a DELETE audit row without asset_id, then the row is removed;
\* its repairs go with it (cascade) and the audit rows that referenced it keep
\* no asset_id (relationship audit_logs without cascade)
delete_asset(a) ==
    IF ~assets[a].present
    THEN UNCHANGED <<lifecycleVars, classifierVars, now>>  \* 404
    ELSE /\ AuditRoom
         /\ assets' = [assets EXCEPT ![a] = NoAsset]
         /\ repairs' = [repairs EXCEPT ![a] = 0]
         /\ audit' = log_action(
                [i \in 1..Len(audit) |->
                    IF audit[i].asset_id = Some(a)
                    THEN [audit[i] EXCEPT !.asset_id = NULL]
                    ELSE audit[i]],
                "DELETE", "asset", Some(a), [asset_tag |-> a], NULL)
         /\ UNCHANGED <<employees, now>>
         /\ UNCHANGED classifierVars

\* add_repair: the Repair row is added to the session and the status set to
\* REPAIR (unless decommissioned), then log_action is called with
\* repair_data.model_dump(), whose repair_date is a date: json.dumps raises
\* TypeError before db.commit(), so the request ends with a server error and
\* nothing of the session reaches the database
add_repair(a) ==
    IF ~assets[a].present
    THEN UNCHANGED <<lifecycleVars, classifierVars, now>>  \* 404
    ELSE UNCHANGED <<lifecycleVars, classifierVars, now>>  \* 500

\* variant of Fixed that always makes the asset available
FixedAvailable(row) == [row EXCEPT !.status = AVAILABLE]

\* the status mark_asset_fixed sets: ACTIVE if assigned, AVAILABLE otherwise
Fixed(row) ==
    [row EXCEPT !.status = IF row.assigned_to # NULL THEN ACTIVE ELSE AVAILABLE]

\* variant of mark_asset_fixed without the check of the status
mark_asset_fixed_unchecked(a) ==
    IF ~assets[a].present
    THEN UNCHANGED <<lifecycleVars, classifierVars, now>>
    ELSE /\ AuditRoom
         /\ assets' = [assets EXCEPT ![a] = Fixed(@)]
         /\ audit' = log_action(audit, "MARK_FIXED", "asset", Some(a), NULL, Some(a))
         /\ UNCHANGED <<employees, repairs, now>>
         /\ UNCHANGED classifierVars

\* mark_asset_fixed
mark_asset_fixed(a) ==
    IF ~assets[a].present
    THEN UNCHANGED <<lifecycleVars, classifierVars, now>>  \* 404
    ELSE IF assets[a].status # REPAIR
    THEN UNCHANGED <<lifecycleVars, classifierVars, now>>  \* 400
    ELSE /\ AuditRoom
         /\ assets' = [assets EXCEPT ![a] = Fixed(@)]
         /\ audit' = log_action(audit, "MARK_FIXED", "asset", Some(a), NULL, Some(a))
         /\ UNCHANGED <<employees, repairs, now>>
         /\ UNCHANGED classifierVars

---------------------------------------------------------------------------
(* routes/employees.py *)

\* create_employee: a new active employee
create_employee(e) ==
    /\ ~employees[e].present
    /\ employees' = [employees EXCEPT ![e] = [present |-> TRUE, is_active |-> TRUE]]
    /\ UNCHANGED <<assets, repairs, audit, now>>
    /\ UNCHANGED classifierVars

\* update_employee with is_active supplied
update_employee(e, active) ==
    IF ~employees[e].present
    THEN UNCHANGED <<lifecycleVars, classifierVars, now>>  \* 404
    ELSE /\ employees' = [employees EXCEPT ![e].is_active = active]
         /\ UNCHANGED <<assets, repairs, audit, now>>
         /\ UNCHANGED classifierVars

\* delete_employee: every asset row assigned to the employee is updated in bulk,
\* whatever its status; the employee is deactivated; no audit row
delete_employee(e) ==
    IF ~employees[e].present
    THEN UNCHANGED <<lifecycleVars, classifierVars, now>>  \* 404
    ELSE /\ assets' = [a \in AssetIds |->
               IF assets[a].present /\ assets[a].assigned_to = Some(e)
               THEN [assets[a] EXCEPT !.assigned_to = NULL,
                                      !.assigned_date = NULL,
                                      !.status = AVAILABLE]
               ELSE assets[a]]
         /\ employees' = [employees EXCEPT ![e].is_active = FALSE]
         /\ UNCHANGED <<repairs, audit, now>>
         /\ UNCHANGED classifierVars

---------------------------------------------------------------------------
(* create_test_user.py *)

AdminEmail == "nick@test.local"

\* the script adds the active admin user unless it already exists
create_test_user ==
    IF AdminEmail \in users
    THEN UNCHANGED <<lifecycleVars, classifierVars, now>>
    ELSE /\ users' = users \cup {AdminEmail}
         /\ UNCHANGED <<history, runs, deliveries, now>>
         /\ UNCHANGED lifecycleVars

---------------------------------------------------------------------------
(* services/warranty_service.py *)

\* notification_type values, in the order the run sends their batches
TypeOrder == <<"expired", "30_day", "90_day">>
NotificationTypes == {TypeOrder[i] : i \in DOMAIN TypeOrder}
Position(t) == CHOOSE i \in DOMAIN TypeOrder : TypeOrder[i] = t

\* thresholds of the classification (days_remaining <= 30, <= 90)
CriticalDays == 30
WarningDays == 90
\* days_lookback passed for 'expired', '30_day' and '90_day'
ExpiredLookback == 30
CriticalLookback == 7
WarningLookback == 14

\* variant of get_admin_emails that falls back to a fixed address
get_admin_emails_fallback == IF users = {} THEN {AdminEmail} ELSE users

\* get_admin_emails
get_admin_emails == users

\* variant of Candidates without the status filter
CandidatesAnyStatus(tbl) ==
    {a \in AssetIds : tbl[a].present /\ tbl[a].warranty_end # NULL}

\* the query of the run: not decommissioned, warranty_end present
Candidates(tbl) ==
    {a \in AssetIds : /\ tbl[a].present
                      /\ tbl[a].status # DECOMMISSIONED
                      /\ tbl[a].warranty_end # NULL}

days_remaining(row, today) == row.warranty_end[1] - today

\* variant of Tier with "<" in place of "<=" in the second branch
TierStrict(days) ==
    IF days < 0 THEN "expired"
    ELSE IF days < CriticalDays THEN "30_day"
    ELSE IF days <= WarningDays THEN "90_day"
    ELSE "none"

\* the if/elif chain of the loop: the notification type of a days_remaining
\* value, "none" when no branch is taken
Tier(days) ==
    IF days < 0 THEN "expired"
    ELSE IF days <= CriticalDays THEN "30_day"
    ELSE IF days <= WarningDays THEN "90_day"
    ELSE "none"

\* get_warranty_summary: its query and the if/elif/else chain of its loop
SummaryCandidates(tbl) ==
    {a \in AssetIds : /\ tbl[a].present
                      /\ tbl[a].status # DECOMMISSIONED
                      /\ tbl[a].warranty_end # NULL}

SummaryBucket(days) ==
    IF days < 0 THEN "expired"
    ELSE IF days <= 30 THEN "critical_30"
    ELSE IF days <= 90 THEN "warning_90"
    ELSE "active"

\* the summary returned: for each key the ids of the assets appended to it
get_warranty_summary(tbl, today) ==
    [k \in {"expired", "critical_30", "warning_90", "active"} |->
        {a \in SummaryCandidates(tbl) :
            SummaryBucket(days_remaining(tbl[a], today)) = k}]

\* get_warranty_alerts: its query and the chain of its loop, "continue" when
\* the else branch skips the asset
AlertCandidates(tbl) ==
    {a \in AssetIds : /\ tbl[a].present
                      /\ tbl[a].status # DECOMMISSIONED
                      /\ tbl[a].warranty_end # NULL}

status_label(days) ==
    IF days < 0 THEN "expired"
    ELSE IF days <= 30 THEN "critical"
    ELSE IF days <= 90 THEN "warning"
    ELSE "continue"

\* the alerts returned: the status of the alert of each asset that has one
get_warranty_alerts(tbl, today) ==
    [a \in {x \in AlertCandidates(tbl) :
                status_label(days_remaining(tbl[x], today)) # "continue"} |->
        status_label(days_remaining(tbl[a], today))]

\* get_dashboard_stats: its warranty query and the counter its loop increments,
\* "none" when no branch is taken
StatsCandidates(tbl) ==
    {a \in AssetIds : /\ tbl[a].present
                      /\ tbl[a].status # DECOMMISSIONED
                      /\ tbl[a].warranty_end # NULL}

StatsCounter(days) ==
    IF days < 0 THEN "warranties_expired"
    ELSE IF days <= 30 THEN "warranties_30"
    ELSE IF days <= 90 THEN "warranties_90"
    ELSE "none"

\* the three warranty counts of the stats returned
get_dashboard_stats(tbl, today) ==
    [k \in {"warranties_expired", "warranties_30", "warranties_90"} |->
        Cardinality({a \in StatsCandidates(tbl) :
                        StatsCounter(days_remaining(tbl[a], today)) = k})]

\* variant of days_lookback: the default of the parameter for every type
days_lookback_default(t) == CriticalLookback

\* the days_lookback argument of each branch
days_lookback(t) ==
    IF t = "expired" THEN ExpiredLookback
    ELSE IF t = "30_day" THEN CriticalLookback
    ELSE WarningLookback

\* variant of check_warranty_already_notified with ">" in place of ">="
check_notified_strictly_after(hist, asset_id, notification_type, lookback, t) ==
    \E h \in hist : /\ h.asset_id = asset_id
                    /\ h.notification_type = notification_type
                    /\ h.sent_at > t - lookback

\* variant of check_warranty_already_notified without the filter on the type
check_notified_any_type(hist, asset_id, notification_type, lookback, t) ==
    \E h \in hist : /\ h.asset_id = asset_id
                    /\ h.sent_at >= t - lookback

\* check_warranty_already_notified at time t
check_warranty_already_notified(hist, asset_id, notification_type, lookback, t) ==
    \E h \in hist : /\ h.asset_id = asset_id
                    /\ h.notification_type = notification_type
                    /\ h.sent_at >= t - lookback

\* variant of Batches without the cooldown check
BatchesNoCooldown(tbl, hist, today) ==
    [t \in NotificationTypes |->
        {a \in Candidates(tbl) : Tier(days_remaining(tbl[a], today)) = t}]

\* the three lists the loop fills: expired, expiring_30, expiring_90
Batches(tbl, hist, today) ==
    [t \in NotificationTypes |->
        {a \in Candidates(tbl) :
            /\ Tier(days_remaining(tbl[a], today)) = t
            /\ ~check_warranty_already_notified(hist, a, t, days_lookback(t), today)}]

\* record_notification: one new row, sent_at set by the database
record_notification(hist, asset_id, notification_type, t) ==
    hist \cup {[id |-> Cardinality(hist) + 1, asset_id |-> asset_id,
                notification_type |-> notification_type, sent_at |-> t]}

\* variant of RecordBatch that records the first asset of the list only
RecordBatchFirst(hist, batch, notification_type, t) ==
    IF batch = {} THEN hist
    ELSE LET a == CHOOSE x \in batch : \A y \in batch : x <= y
         IN  record_notification(hist, a, notification_type, t)

\* variant of RecordBatch that leaves out the assets decommissioned by now
RECURSIVE RecordBatchInService(_, _, _, _)
RecordBatchInService(hist, batch, notification_type, t) ==
    LET left == {x \in batch : assets[x].status # DECOMMISSIONED}
    IN  IF left = {} THEN hist
        ELSE LET a == CHOOSE x \in left : \A y \in left : x <= y
             IN  RecordBatchInService(
                     record_notification(hist, a, notification_type, t),
                     left \ {a}, notification_type, t)

\* the loop "for asset, _ in batch: record_notification(...)"
RECURSIVE RecordBatch(_, _, _, _)
RecordBatch(hist, batch, notification_type, t) ==
    IF batch = {} THEN hist
    ELSE LET a == CHOOSE x \in batch : \A y \in batch : x <= y
         IN  RecordBatch(record_notification(hist, a, notification_type, t),
                         batch \ {a}, notification_type, t)

\* the coroutines that run check_and_send_warranty_alerts: the daily job of
\* main.py and the manual trigger of routes/dashboard.py
RunIds == {"scheduled", "manual"}

\* a coroutine: pc is "idle" or the type whose send it awaits, batch its three
\* lists, calls the parity of the number of calls made so far
NoBatch == [t \in NotificationTypes |-> {}]
IdleRun == [pc |-> "idle", batch |-> NoBatch, calls |-> 0]

\* variant of NextSend that does not skip an empty list
NextSendAny(batch, i) ==
    IF i >= Len(TypeOrder) THEN "idle" ELSE TypeOrder[i + 1]

\* the next "await email_service.send_warranty_alert" the run reaches after
\* position i: the next non-empty list, "idle" when the run ends
NextSend(batch, i) ==
    LET later == {j \in DOMAIN TypeOrder : j > i /\ batch[TypeOrder[j]] # {}}
    IN  IF later = {} THEN "idle"
        ELSE TypeOrder[CHOOSE j \in later : \A k \in later : j <= k]

\* check_and_send_warranty_alerts up to its first await: the query, the
\* classification loop, get_admin_emails and the return when there are none
StartRun(r) ==
    /\ runs[r].pc = "idle"
    /\ LET batch == Batches(assets, history, now)
           first == IF get_admin_emails = {} THEN "idle" ELSE NextSend(batch, 0)
       IN  runs' = [runs EXCEPT ![r] =
                       [pc |-> first,
                        batch |-> IF first = "idle" THEN NoBatch ELSE batch,
                        calls |-> 1 - @.calls]]
    /\ UNCHANGED <<users, history, deliveries, now>>
    /\ UNCHANGED lifecycleVars

\* check_and_send_warranty_alerts when a statement of the loop body raises for
\* asset a (the subtraction, the access to assigned_employee or the query of
\* check_warranty_already_notified): the loop is inside the one try block of
\* the function, so the exception reaches "except Exception", which logs it,
\* and the call returns without having sent anything
StartRunRaising(r, a) ==
    /\ runs[r].pc = "idle"
    /\ a \in Candidates(assets)
    /\ runs' = [runs EXCEPT ![r] =
                   [pc |-> "idle", batch |-> NoBatch, calls |-> 1 - @.calls]]
    /\ UNCHANGED <<users, history, deliveries, now>>
    /\ UNCHANGED lifecycleVars

\* the number of notifier calls that delivered so far
NotifierCalls == Cardinality({d.call : d \in deliveries})

\* variant of SendReturns that records the rows of the list whatever the send
\* returned
SendReturnsRecording(r, success) ==
    /\ runs[r].pc # "idle"
    /\ LET t == runs[r].pc
           batch == runs[r].batch[t]
           next == NextSend(runs[r].batch, Position(t))
       IN  /\ deliveries' =
                 IF success
                 THEN deliveries \cup {[asset_id |-> a, type |-> t, at |-> now,
                                        call |-> NotifierCalls + 1] : a \in batch}
                 ELSE deliveries
           /\ history' = RecordBatch(history, batch, t, now)
           /\ runs' = [runs EXCEPT ![r] =
                          [pc |-> next,
                           batch |-> IF next = "idle" THEN NoBatch ELSE @.batch,
                           calls |-> @.calls]]
    /\ UNCHANGED <<users, now>>
    /\ UNCHANGED lifecycleVars

\* variant of SendReturns in which a failed send ends the run
SendReturnsAborting(r, success) ==
    /\ runs[r].pc # "idle"
    /\ LET t == runs[r].pc
           batch == runs[r].batch[t]
           next == IF success THEN NextSend(runs[r].batch, Position(t)) ELSE "idle"
       IN  /\ deliveries' =
                 IF success
                 THEN deliveries \cup {[asset_id |-> a, type |-> t, at |-> now,
                                        call |-> NotifierCalls + 1] : a \in batch}
                 ELSE deliveries
           /\ history' = IF success THEN RecordBatch(history, batch, t, now)
                         ELSE history
           /\ runs' = [runs EXCEPT ![r] =
                          [pc |-> next,
                           batch |-> IF next = "idle" THEN NoBatch ELSE @.batch,
                           calls |-> @.calls]]
    /\ UNCHANGED <<users, now>>
    /\ UNCHANGED lifecycleVars

\* send_warranty_alert returns: on success one row per asset of the list is
\* recorded; then the run goes on to its next await or ends
SendReturns(r, success) ==
    /\ runs[r].pc # "idle"
    /\ LET t == runs[r].pc
           batch == runs[r].batch[t]
           next == NextSend(runs[r].batch, Position(t))
       IN  /\ deliveries' =
                 IF success
                 THEN deliveries \cup {[asset_id |-> a, type |-> t, at |-> now,
                                        call |-> NotifierCalls + 1] : a \in batch}
                 ELSE deliveries
           /\ history' = IF success THEN RecordBatch(history, batch, t, now)
                         ELSE history
           /\ runs' = [runs EXCEPT ![r] =
                          [pc |-> next,
                           batch |-> IF next = "idle" THEN NoBatch ELSE @.batch,
                           calls |-> @.calls]]
    /\ UNCHANGED <<users, now>>
    /\ UNCHANGED lifecycleVars

\* days pass: the clock moves on to a later day of the calendar
Tick(d) ==
    /\ d > now
    /\ now' = d
    /\ UNCHANGED lifecycleVars
    /\ UNCHANGED classifierVars

---------------------------------------------------------------------------
(* Specification of the lifecycle handlers *)

---------------------------------------------------------------------------
(* The status code each handler answers with, from the state the request
   finds: the HTTPException it raises, or the code of the route *)

\* 201, or 500 when log_action raises after the asset row is committed
create_asset_response(w) == IF Serialisable(w) THEN 201 ELSE 500

update_asset_response(a) == IF ~assets[a].present THEN 404 ELSE 200

assign_asset_response(a, e) ==
    IF ~assets[a].present THEN 404
    ELSE IF assets[a].status = DECOMMISSIONED THEN 400
    ELSE IF e # NULL /\ ~employees[e[1]].present THEN 404
    ELSE 200

\* the answer of the assign_asset coroutine that resumes
assign_asset_resume_response ==
    IF ~assets[pending[1].asset].present THEN 500 ELSE 200

\* variant of assign_asset_mail that calls before the checks
assign_asset_mail_unchecked(a, e) == IF e # NULL THEN <<e[1]>> ELSE <<>>

\* the calls of send_assignment_notification an assign_asset request makes, by
\* the employee whose address each call is given: one in the branch "Assign to
\* employee", once the checks have passed
assign_asset_mail(a, e) ==
    IF assign_asset_response(a, e) = 200 /\ e # NULL THEN <<e[1]>> ELSE <<>>

\* send_email: False when the service is not configured or the SMTP call
\* raises, True when the SMTP call returns
send_email(configured, smtp_ok) ==
    IF ~configured THEN FALSE ELSE smtp_ok

\* send_assignment_notification: renders the template and returns send_email
send_assignment_notification(configured, smtp_ok) == send_email(configured, smtp_ok)

\* variant of assign_asset_notified that fails when the notice was not sent
assign_asset_notified_checked(a, e, sent) ==
    IF assign_asset_response(a, e) = 200 /\ e # NULL /\ ~sent
    THEN UNCHANGED <<lifecycleVars, classifierVars, now>>
    ELSE assign_asset(a, e)

\* assign_asset, given what the awaited send_assignment_notification returns:
\* the handler does not use the value
assign_asset_notified(a, e, sent) == assign_asset(a, e)

decommission_asset_response(a, reason) ==
    IF ~ValidReason(reason) THEN 422
    ELSE IF ~assets[a].present THEN 404
    ELSE IF assets[a].status = DECOMMISSIONED THEN 400
    ELSE 200

delete_asset_response(a) == IF ~assets[a].present THEN 404 ELSE 204

\* 500: the TypeError of json.dumps in log_action is not handled
add_repair_response(a) == IF ~assets[a].present THEN 404 ELSE 500

mark_asset_fixed_response(a) ==
    IF ~assets[a].present THEN 404
    ELSE IF assets[a].status # REPAIR THEN 400
    ELSE 200

update_employee_response(e) == IF ~employees[e].present THEN 404 ELSE 200
delete_employee_response(e) == IF ~employees[e].present THEN 404 ELSE 204

\* a request and its response: the route, the id in its path, the employee_id
\* or the reason of its body, the status code
Request(op, id, employee, reason, code) ==
    [op |-> op, id |-> id, employee |-> employee, reason |-> reason, code |-> code,
     body |-> NULL, mail |-> <<>>]

NoRequest == Request("none", NULL, NULL, NULL, NULL)

\* an assign_asset request with the calls of send_assignment_notification it made
AssignRequest(a, e, code, mail) ==
    [Request("assign_asset", Some(a), e, NULL, code) EXCEPT !.mail = mail]

\* an update_asset request with the AssetUpdate of its body
UpdateRequest(a, u, code) ==
    [Request("update_asset", Some(a), NULL, NULL, code) EXCEPT !.body = Some(u)]

Init ==
    /\ last = NoRequest
    /\ assets = [a \in AssetIds |-> NoAsset]
    /\ employees = [e \in EmployeeIds |-> NoEmployee]
    /\ repairs = [a \in AssetIds |-> 0]
    /\ audit = <<>>
    /\ users = {}
    /\ history = {}
    /\ now = 0
    /\ runs = [r \in RunIds |-> IdleRun]
    /\ deliveries = {}
    /\ pending = NULL
    /\ phase = "none"

EmployeeArgs == {NULL} \cup {Some(e) : e \in EmployeeIds}

Next ==
    \/ \E a \in AssetIds, w \in WarrantyInputsLifecycle :
          /\ create_asset(a, w)
          /\ last' = Request("create_asset", Some(a), NULL, NULL, create_asset_response(w))
          /\ UNCHANGED <<pending, phase>>
    \/ \E a \in AssetIds, u \in AssetUpdates(WarrantyInputsLifecycle) :
          /\ update_asset(a, u.fields, u.status, u.warranty_end)
          /\ last' = Request("update_asset", Some(a), NULL, NULL, update_asset_response(a))
          /\ UNCHANGED <<pending, phase>>
    \/ \E a \in AssetIds, e \in EmployeeArgs :
          /\ assign_asset(a, e)
          /\ last' = AssignRequest(a, e, assign_asset_response(a, e),
                                   assign_asset_mail(a, e))
          /\ UNCHANGED <<pending, phase>>
    \/ \E a \in AssetIds, reason \in ReasonInputs :
          /\ decommission_asset(a, reason)
          /\ last' = Request("decommission_asset", Some(a), NULL, Some(reason),
                             decommission_asset_response(a, reason))
          /\ UNCHANGED <<pending, phase>>
    \/ \E a \in AssetIds :
          /\ delete_asset(a)
          /\ last' = Request("delete_asset", Some(a), NULL, NULL, delete_asset_response(a))
          /\ UNCHANGED <<pending, phase>>
    \/ \E a \in AssetIds :
          /\ add_repair(a)
          /\ last' = Request("add_repair", Some(a), NULL, NULL, add_repair_response(a))
          /\ UNCHANGED <<pending, phase>>
    \/ \E a \in AssetIds :
          /\ mark_asset_fixed(a)
          /\ last' = Request("mark_asset_fixed", Some(a), NULL, NULL,
                             mark_asset_fixed_response(a))
          /\ UNCHANGED <<pending, phase>>
    \/ \E e \in EmployeeIds :
          /\ create_employee(e)
          /\ last' = Request("create_employee", Some(e), NULL, NULL, 201)
          /\ UNCHANGED <<pending, phase>>
    \/ \E e \in EmployeeIds, active \in BOOLEAN :
          /\ update_employee(e, active)
          /\ last' = Request("update_employee", Some(e), NULL, NULL,
                             update_employee_response(e))
          /\ UNCHANGED <<pending, phase>>
    \/ \E e \in EmployeeIds :
          /\ delete_employee(e)
          /\ last' = Request("delete_employee", Some(e), NULL, NULL,
                             delete_employee_response(e))
          /\ UNCHANGED <<pending, phase>>
    \/ \E d \in CalendarShort :
          /\ Tick(d)
          /\ last' = NoRequest
          /\ UNCHANGED <<pending, phase>>

Spec == Init /\ [][Next]_vars

---------------------------------------------------------------------------
(* Specification of the repair cycle: assets are created, with or without a
   warranty date, assigned, put in repair and marked fixed *)

\* the specification follows one asset; the request that creates it may carry
\* a warranty date
RepairAssetIds == {1}
WarrantyInputsRepair == {NULL, Some(40)}

NextRepair ==
    \/ \E a \in RepairAssetIds, w \in WarrantyInputsRepair :
          /\ create_asset(a, w)
          /\ last' = Request("create_asset", Some(a), NULL, NULL, create_asset_response(w))
          /\ UNCHANGED <<pending, phase>>
    \/ \E a \in RepairAssetIds, u \in AssetUpdates(WarrantyInputsLifecycle) :
          /\ update_asset(a, u.fields, u.status, u.warranty_end)
          /\ last' = Request("update_asset", Some(a), NULL, NULL, update_asset_response(a))
          /\ UNCHANGED <<pending, phase>>
    \/ \E a \in RepairAssetIds, e \in EmployeeArgs :
          /\ assign_asset(a, e)
          /\ last' = AssignRequest(a, e, assign_asset_response(a, e),
                                   assign_asset_mail(a, e))
          /\ UNCHANGED <<pending, phase>>
    \/ \E a \in RepairAssetIds :
          /\ add_repair(a)
          /\ last' = Request("add_repair", Some(a), NULL, NULL, add_repair_response(a))
          /\ UNCHANGED <<pending, phase>>
    \/ \E a \in RepairAssetIds :
          /\ mark_asset_fixed(a)
          /\ last' = Request("mark_asset_fixed", Some(a), NULL, NULL,
                             mark_asset_fixed_response(a))
          /\ UNCHANGED <<pending, phase>>
    \/ \E e \in EmployeeIds :
          /\ create_employee(e)
          /\ last' = Request("create_employee", Some(e), NULL, NULL, 201)
          /\ UNCHANGED <<pending, phase>>

SpecRepair == Init /\ [][NextRepair]_vars

---------------------------------------------------------------------------
(* Specification of free-form edits: assets are created, assigned and
   decommissioned, and update_asset requests edit status and warranty_end;
   last records the update requests, with their body *)

WarrantyInputsUpdate == {NULL, Some(40)}

NextUpdate ==
    \/ \E a \in AssetIds, w \in WarrantyInputsLifecycle :
          create_asset(a, w) /\ last' = NoRequest /\ UNCHANGED <<pending, phase>>
    \/ \E a \in AssetIds, u \in AssetUpdates(WarrantyInputsUpdate) :
          /\ update_asset(a, u.fields, u.status, u.warranty_end)
          /\ last' = UpdateRequest(a, u, update_asset_response(a))
          /\ UNCHANGED <<pending, phase>>
    \/ \E a \in AssetIds, e \in EmployeeArgs :
          assign_asset(a, e) /\ last' = NoRequest /\ UNCHANGED <<pending, phase>>
    \/ \E a \in AssetIds, reason \in ReasonInputs :
          decommission_asset(a, reason) /\ last' = NoRequest /\ UNCHANGED <<pending, phase>>
    \/ \E e \in EmployeeIds :
          create_employee(e) /\ last' = NoRequest /\ UNCHANGED <<pending, phase>>
    \/ \E d \in CalendarShort : Tick(d) /\ last' = NoRequest /\ UNCHANGED <<pending, phase>>

SpecUpdate == Init /\ [][NextUpdate]_vars

---------------------------------------------------------------------------
(* Specification of overlapping requests, with the mail service configured: an
   assign_asset request with an employee waits for its e-mail while unassign,
   decommission and delete requests are served.  The coroutine notes in
   overlapped the requests that changed its asset while it waited. *)

\* pending after a request op has changed asset a
Overlapped(a, op, reason, changed) ==
    IF pending # NULL /\ pending[1].asset = a /\ changed
    THEN Some([pending[1] EXCEPT !.overlapped =
                  Append(@, [op |-> op, reason |-> reason, today |-> now])])
    ELSE pending

NextOverlap ==
    \/ \E a \in AssetIds, w \in WarrantyInputsLifecycle :
          /\ create_asset(a, w)
          /\ pending' = Overlapped(a, "create_asset", NULL, TRUE)
          /\ last' = NoRequest
          /\ UNCHANGED phase
    \/ \E e \in EmployeeIds :
          create_employee(e) /\ last' = NoRequest /\ UNCHANGED <<pending, phase>>
    \/ \E a \in AssetIds, e \in EmployeeArgs :
          /\ assign_asset_suspend(a, e)
          /\ last' = NoRequest
          /\ UNCHANGED phase
    \/ /\ assign_asset_resume
       /\ last' = AssignRequest(pending[1].asset, pending[1].employee,
                                assign_asset_resume_response, <<pending[1].to>>)
       /\ UNCHANGED phase
    \/ \E a \in AssetIds, e \in EmployeeArgs :
          /\ e = NULL \/ assign_asset_response(a, e) # 200
          /\ assign_asset(a, e)
          /\ pending' = Overlapped(a, "unassign", NULL, assign_asset_response(a, e) = 200)
          /\ last' = AssignRequest(a, e, assign_asset_response(a, e),
                                   assign_asset_mail(a, e))
          /\ UNCHANGED phase
    \/ \E a \in AssetIds, reason \in ReasonInputs :
          /\ decommission_asset(a, reason)
          /\ pending' = Overlapped(a, "decommission_asset", Some(reason),
                                   decommission_asset_response(a, reason) = 200)
          /\ last' = Request("decommission_asset", Some(a), NULL, Some(reason),
                             decommission_asset_response(a, reason))
          /\ UNCHANGED phase
    \/ \E a \in AssetIds :
          /\ delete_asset(a)
          /\ pending' = Overlapped(a, "delete_asset", NULL, delete_asset_response(a) = 204)
          /\ last' = Request("delete_asset", Some(a), NULL, NULL, delete_asset_response(a))
          /\ UNCHANGED phase
    \/ \E d \in CalendarShort :
          Tick(d) /\ last' = NoRequest /\ UNCHANGED <<pending, phase>>

SpecOverlap == Init /\ [][NextOverlap]_vars

---------------------------------------------------------------------------
(* Specification of the classifier: the daily job, one run after the other,
   while days pass and assets are created and decommissioned *)

AllIdle == \A r \in RunIds : runs[r].pc = "idle"

NextClassifier ==
    \/ AllIdle /\ StartRun("scheduled") /\ UNCHANGED <<pending, phase, last>>
    \/ \E success \in BOOLEAN : SendReturns("scheduled", success) /\ UNCHANGED <<pending, phase, last>>
    \/ \E d \in Calendar : Tick(d) /\ UNCHANGED <<pending, phase, last>>
    \/ create_test_user /\ UNCHANGED <<pending, phase, last>>
    \/ \E a \in AssetIds, w \in WarrantyInputsClassifier :
          create_asset(a, w) /\ UNCHANGED <<pending, phase, last>>
    \/ \E a \in AssetIds, reason \in ReasonInputs :
          decommission_asset(a, reason) /\ UNCHANGED <<pending, phase, last>>

SpecClassifier == Init /\ [][NextClassifier]_vars

---------------------------------------------------------------------------
(* Specification of faults in the classification loop: as the classifier, on
   two days, with runs in which the processing of one asset raises; last
   records those runs and the asset *)

WarrantyInputsFault == {NULL, Some(-1), Some(31)}

NextFault ==
    \/ AllIdle /\ StartRun("scheduled") /\ last' = NoRequest /\ UNCHANGED <<pending, phase>>
    \/ \E a \in AssetIds :
          /\ AllIdle
          /\ StartRunRaising("scheduled", a)
          /\ last' = Request("ClassificationError", Some(a), NULL, NULL, NULL)
          /\ UNCHANGED <<pending, phase>>
    \/ \E success \in BOOLEAN :
          SendReturns("scheduled", success) /\ last' = NoRequest /\ UNCHANGED <<pending, phase>>
    \/ \E d \in CalendarShort : Tick(d) /\ last' = NoRequest /\ UNCHANGED <<pending, phase>>
    \/ create_test_user /\ last' = NoRequest /\ UNCHANGED <<pending, phase>>
    \/ \E a \in AssetIds, w \in WarrantyInputsFault :
          create_asset(a, w) /\ last' = NoRequest /\ UNCHANGED <<pending, phase>>
    \/ \E a \in AssetIds, reason \in ReasonInputs :
          decommission_asset(a, reason) /\ last' = NoRequest /\ UNCHANGED <<pending, phase>>

SpecFault == Init /\ [][NextFault]_vars

---------------------------------------------------------------------------
(* Specification of deletion: the daily job writes its history, and between
   runs assets are deleted; last records the delete requests only *)

\* the warranty_end of the assets of this specification: none, or expired
WarrantyInputsDelete == {NULL, Some(-1)}

NextDelete ==
    \/ AllIdle /\ StartRun("scheduled") /\ last' = NoRequest /\ UNCHANGED <<pending, phase>>
    \/ \E success \in BOOLEAN :
          SendReturns("scheduled", success) /\ last' = NoRequest /\ UNCHANGED <<pending, phase>>
    \/ \E d \in CalendarShort : Tick(d) /\ last' = NoRequest /\ UNCHANGED <<pending, phase>>
    \/ create_test_user /\ last' = NoRequest /\ UNCHANGED <<pending, phase>>
    \/ \E a \in AssetIds, w \in WarrantyInputsDelete :
          create_asset(a, w) /\ last' = NoRequest /\ UNCHANGED <<pending, phase>>
    \/ \E a \in AssetIds, reason \in ReasonInputs :
          decommission_asset(a, reason) /\ last' = NoRequest /\ UNCHANGED <<pending, phase>>
    \/ \E a \in AssetIds :
          /\ AllIdle
          /\ delete_asset(a)
          /\ last' = Request("delete_asset", Some(a), NULL, NULL, delete_asset_response(a))
          /\ UNCHANGED <<pending, phase>>

SpecDelete == Init /\ [][NextDelete]_vars

---------------------------------------------------------------------------
(* Specification of the history under every operation: the daily job writes
   rows for expired assets while assets are created, edited, assigned,
   decommissioned and deleted and employees are deactivated *)

\* the specification follows one asset and one employee
HistoryAssetIds == {1}
HistoryEmployeeIds == {1}

NextHistory ==
    \/ AllIdle /\ StartRun("scheduled") /\ last' = NoRequest /\ UNCHANGED <<pending, phase>>
    \/ \E success \in BOOLEAN :
          SendReturns("scheduled", success) /\ last' = NoRequest /\ UNCHANGED <<pending, phase>>
    \/ \E d \in CalendarShort : Tick(d) /\ last' = NoRequest /\ UNCHANGED <<pending, phase>>
    \/ create_test_user /\ last' = NoRequest /\ UNCHANGED <<pending, phase>>
    \/ \E a \in HistoryAssetIds, w \in WarrantyInputsDelete :
          create_asset(a, w) /\ last' = NoRequest /\ UNCHANGED <<pending, phase>>
    \/ \E a \in HistoryAssetIds, u \in AssetUpdates(WarrantyInputsLifecycle) :
          /\ update_asset(a, u.fields, u.status, u.warranty_end)
          /\ last' = NoRequest
          /\ UNCHANGED <<pending, phase>>
    \/ \E a \in HistoryAssetIds, e \in EmployeeArgs :
          assign_asset(a, e) /\ last' = NoRequest /\ UNCHANGED <<pending, phase>>
    \/ \E a \in HistoryAssetIds, reason \in ReasonInputs :
          decommission_asset(a, reason) /\ last' = NoRequest /\ UNCHANGED <<pending, phase>>
    \/ \E e \in HistoryEmployeeIds :
          create_employee(e) /\ last' = NoRequest /\ UNCHANGED <<pending, phase>>
    \/ \E e \in HistoryEmployeeIds :
          delete_employee(e) /\ last' = NoRequest /\ UNCHANGED <<pending, phase>>
    \/ \E a \in HistoryAssetIds :
          /\ AllIdle
          /\ delete_asset(a)
          /\ last' = Request("delete_asset", Some(a), NULL, NULL, delete_asset_response(a))
          /\ UNCHANGED <<pending, phase>>

SpecHistory == Init /\ [][NextHistory]_vars

---------------------------------------------------------------------------
(* Specification of the lifecycle alone: assets are created available and
   unassigned, and only assign, unassign, decommission, repair and mark-fixed
   requests are served *)

\* a repair request, recorded with the asset as it was when the request came
RepairRequest(a, code) ==
    [Request("add_repair", Some(a), NULL, NULL, code) EXCEPT !.body = Some(assets[a])]

NextTransitions ==
    \/ \E a \in AssetIds :
          /\ create_asset(a, NULL)
          /\ last' = Request("create_asset", Some(a), NULL, NULL, create_asset_response(NULL))
          /\ UNCHANGED <<pending, phase>>
    \/ \E e \in EmployeeIds :
          /\ create_employee(e)
          /\ last' = Request("create_employee", Some(e), NULL, NULL, 201)
          /\ UNCHANGED <<pending, phase>>
    \/ \E a \in AssetIds, e \in EmployeeArgs :
          /\ assign_asset(a, e)
          /\ last' = AssignRequest(a, e, assign_asset_response(a, e),
                                   assign_asset_mail(a, e))
          /\ UNCHANGED <<pending, phase>>
    \/ \E a \in AssetIds, reason \in ReasonInputs :
          /\ decommission_asset(a, reason)
          /\ last' = Request("decommission_asset", Some(a), NULL, Some(reason),
                             decommission_asset_response(a, reason))
          /\ UNCHANGED <<pending, phase>>
    \/ \E a \in AssetIds :
          /\ add_repair(a)
          /\ last' = RepairRequest(a, add_repair_response(a))
          /\ UNCHANGED <<pending, phase>>
    \/ \E a \in AssetIds :
          /\ mark_asset_fixed(a)
          /\ last' = Request("mark_asset_fixed", Some(a), NULL, NULL,
                             mark_asset_fixed_response(a))
          /\ UNCHANGED <<pending, phase>>

SpecTransitions == Init /\ [][NextTransitions]_vars

---------------------------------------------------------------------------
(* Specification of the warranty views: assets are created and decommissioned,
   days pass, and the summary, the alerts and the dashboard counts are read;
   last records the response of a read *)

\* a read request and what it returned
ViewRequest(op, response) ==
    [Request(op, NULL, NULL, NULL, 200) EXCEPT !.body = Some(response)]

NextViews ==
    \/ \E a \in AssetIds, w \in WarrantyInputsClassifier :
          create_asset(a, w) /\ last' = NoRequest /\ UNCHANGED <<pending, phase>>
    \/ \E a \in AssetIds, reason \in ReasonInputs :
          decommission_asset(a, reason) /\ last' = NoRequest /\ UNCHANGED <<pending, phase>>
    \/ \E d \in Calendar : Tick(d) /\ last' = NoRequest /\ UNCHANGED <<pending, phase>>
    \/ /\ last' = ViewRequest("get_warranty_summary", get_warranty_summary(assets, now))
       /\ UNCHANGED <<lifecycleVars, classifierVars, now, pending, phase>>
    \/ /\ last' = ViewRequest("get_warranty_alerts", get_warranty_alerts(assets, now))
       /\ UNCHANGED <<lifecycleVars, classifierVars, now, pending, phase>>
    \/ /\ last' = ViewRequest("get_dashboard_stats", get_dashboard_stats(assets, now))
       /\ UNCHANGED <<lifecycleVars, classifierVars, now, pending, phase>>

SpecViews == Init /\ [][NextViews]_vars

---------------------------------------------------------------------------
(* Specification of assignment notices: assign requests are served with every
   outcome of the e-mail; last records what the send returned *)

\* an assign_asset request with what its send returned
NoticeRequest(a, e, sent) ==
    [AssignRequest(a, e, assign_asset_response(a, e), assign_asset_mail(a, e))
        EXCEPT !.body = Some([sent |-> sent])]

NextNotice ==
    \/ \E a \in AssetIds :
          /\ create_asset(a, NULL)
          /\ last' = Request("create_asset", Some(a), NULL, NULL, create_asset_response(NULL))
          /\ UNCHANGED <<pending, phase>>
    \/ \E e \in EmployeeIds :
          /\ create_employee(e)
          /\ last' = Request("create_employee", Some(e), NULL, NULL, 201)
          /\ UNCHANGED <<pending, phase>>
    \/ \E d \in CalendarShort : Tick(d) /\ last' = NoRequest /\ UNCHANGED <<pending, phase>>
    \/ \E a \in AssetIds, e \in EmployeeArgs, configured \in BOOLEAN, smtp_ok \in BOOLEAN :
          LET sent == send_assignment_notification(configured, smtp_ok)
          IN  /\ assign_asset_notified(a, e, sent)
              /\ last' = NoticeRequest(a, e, sent)
              /\ UNCHANGED <<pending, phase>>
    \/ \E a \in AssetIds, reason \in ReasonInputs :
          /\ decommission_asset(a, reason)
          /\ last' = Request("decommission_asset", Some(a), NULL, Some(reason),
                             decommission_asset_response(a, reason))
          /\ UNCHANGED <<pending, phase>>

SpecNotice == Init /\ [][NextNotice]_vars

---------------------------------------------------------------------------
(* Specification of transitions during a run: while the daily job awaits a
   send, assets are decommissioned or their status is edited; last records such
   a request, with the send the run awaited and whether the asset was in the
   list of that send *)

WarrantyInputsMidRun == {Some(-1), Some(31)}

\* a request served while run r awaits a send
MidRunRequest(op, a, code, r) ==
    [Request(op, Some(a), NULL, NULL, code) EXCEPT
        !.body = Some([awaited |-> runs[r].pc,
                       listed |-> a \in runs[r].batch[runs[r].pc]])]

NextMidRun ==
    \/ AllIdle /\ StartRun("scheduled") /\ last' = NoRequest /\ UNCHANGED <<pending, phase>>
    \/ \E success \in BOOLEAN :
          SendReturns("scheduled", success) /\ UNCHANGED <<pending, phase, last>>
    \/ \E d \in CalendarShort :
          AllIdle /\ Tick(d) /\ UNCHANGED <<pending, phase, last>>
    \/ AllIdle /\ create_test_user /\ last' = NoRequest /\ UNCHANGED <<pending, phase>>
    \/ \E a \in AssetIds, w \in WarrantyInputsMidRun :
          AllIdle /\ create_asset(a, w) /\ last' = NoRequest /\ UNCHANGED <<pending, phase>>
    \/ \E a \in AssetIds, reason \in ReasonInputs :
          /\ ~AllIdle
          /\ decommission_asset(a, reason)
          /\ last' = MidRunRequest("decommission_asset", a,
                                   decommission_asset_response(a, reason), "scheduled")
          /\ UNCHANGED <<pending, phase>>
    \/ \E a \in AssetIds, st \in {AVAILABLE, DECOMMISSIONED} :
          /\ ~AllIdle
          /\ update_asset(a, {"status"}, st, NULL)
          /\ last' = MidRunRequest("update_asset", a, update_asset_response(a), "scheduled")
          /\ UNCHANGED <<pending, phase>>

SpecMidRun == Init /\ [][NextMidRun]_vars

---------------------------------------------------------------------------
(* Specification of overlapping runs: the daily job and the manual trigger *)

NextConcurrent ==
    \/ \E r \in RunIds : StartRun(r) /\ UNCHANGED <<pending, phase, last>>
    \/ \E r \in RunIds, success \in BOOLEAN : SendReturns(r, success) /\ UNCHANGED <<pending, phase, last>>
    \/ \E d \in CalendarShort : Tick(d) /\ UNCHANGED <<pending, phase, last>>
    \/ create_test_user /\ UNCHANGED <<pending, phase, last>>
    \/ \E a \in AssetIds, w \in WarrantyInputsClassifier :
          create_asset(a, w) /\ UNCHANGED <<pending, phase, last>>
    \/ \E a \in AssetIds, reason \in ReasonInputs :
          decommission_asset(a, reason) /\ UNCHANGED <<pending, phase, last>>

SpecConcurrent == Init /\ [][NextConcurrent]_vars

---------------------------------------------------------------------------
(* Specification of repeated runs on one day.  The history variable phase
   records what the daily job did since the day or the data last changed:
     "none"        no call yet
     "run1"        the first call awaits a send; every send so far delivered
     "run1f"       the first call awaits a send; a send has failed
     "clean"       the first call has returned and delivered each of its lists
     "failed"      the first call has returned; a list of it was not delivered
     "cleanAgain"  a later call was made after a "clean" one
     "failedAgain" a later call was made after a "failed" one *)

\* the value of phase after a step, from the step's two states
PhaseAfter ==
    LET was == runs["scheduled"]
        is == runs'["scheduled"]
        delivered == deliveries' # deliveries
    IN  IF assets' # assets \/ users' # users \/ now' # now THEN "none"
        ELSE IF is.calls # was.calls                         \* a call is made
        THEN IF phase = "none"
             THEN IF is.pc # "idle" THEN "run1"
                  ELSE IF users = {} THEN "failed" ELSE "clean"
             ELSE IF phase \in {"clean", "cleanAgain"} THEN "cleanAgain"
             ELSE IF phase \in {"failed", "failedAgain"} THEN "failedAgain"
             ELSE phase
        ELSE IF was.pc # "idle" /\ is # was                  \* a send returns
        THEN LET sofar == IF phase = "run1" /\ ~delivered THEN "run1f" ELSE phase
             IN  IF is.pc # "idle" THEN sofar
                 ELSE IF sofar = "run1" THEN "clean"
                 ELSE IF sofar = "run1f" THEN "failed"
                 ELSE sofar
        ELSE phase

NextTwice ==
    \/ AllIdle /\ StartRun("scheduled") /\ phase' = PhaseAfter /\ UNCHANGED <<pending, last>>
    \/ \E success \in BOOLEAN : SendReturns("scheduled", success) /\ phase' = PhaseAfter /\ UNCHANGED <<pending, last>>
    \/ \E d \in CalendarShort : Tick(d) /\ phase' = PhaseAfter /\ UNCHANGED <<pending, last>>
    \/ create_test_user /\ phase' = PhaseAfter /\ UNCHANGED <<pending, last>>
    \/ \E a \in AssetIds, w \in WarrantyInputsClassifier :
          create_asset(a, w) /\ phase' = PhaseAfter /\ UNCHANGED <<pending, last>>
    \/ \E a \in AssetIds, reason \in ReasonInputs :
          decommission_asset(a, reason) /\ phase' = PhaseAfter /\ UNCHANGED <<pending, last>>

SpecTwice == Init /\ [][NextTwice]_vars

---------------------------------------------------------------------------
(* Specification of retries: the steps of repeated runs, with the scheduling
   of the daily job.  The scheduler of main.py calls the job again and again
   (weak fairness of the call); the notifier, for each type, does not fail
   forever (strong fairness of a successful send of that type). *)

RunStarts ==
    /\ AllIdle
    /\ StartRun("scheduled")
    /\ phase' = PhaseAfter
    /\ UNCHANGED <<pending, last>>

SendSucceeds(t) ==
    /\ runs["scheduled"].pc = t
    /\ SendReturns("scheduled", TRUE)
    /\ phase' = PhaseAfter
    /\ UNCHANGED <<pending, last>>

SpecRetry ==
    /\ Init
    /\ [][NextTwice]_vars
    /\ WF_vars(RunStarts)
    /\ \A t \in NotificationTypes : SF_vars(SendSucceeds(t))

---------------------------------------------------------------------------
(* Claims about the lifecycle handlers (Spec) *)

\* C1: once the status of an asset is decommissioned, no operation on that
\* asset changes it to another value.
C1_DecommissionedTerminal ==
    [][\A a \in AssetIds :
          (assets[a].present /\ assets[a].status = DECOMMISSIONED /\ assets'[a].present)
             => assets'[a].status = DECOMMISSIONED]_vars

\* C2: every asset whose status is not repair has assigned_to set if and only
\* if its status is active.
C2_AssignedIffActive ==
    \A a \in AssetIds :
        (assets[a].present /\ assets[a].status # REPAIR)
           => ((assets[a].assigned_to # NULL) <=> (assets[a].status = ACTIVE))

\* the step answers a request to route op for asset a
ClaimRequested(op, a) == last'.op = op /\ last'.id = Some(a)

\* the request of the step leaves every table of the lifecycle as it was
ClaimNoMutation == UNCHANGED <<assets, employees, repairs, audit>>

\* the asset exists and its status is available, active or repair
ClaimInService(a) ==
    assets[a].present /\ assets[a].status \in {AVAILABLE, ACTIVE, REPAIR}

\* the step appends exactly one audit row, and it has this action and entity
ClaimOneAuditRow(action, a) ==
    /\ Len(audit') = Len(audit) + 1
    /\ audit'[Len(audit')].action = action
    /\ audit'[Len(audit')].entity_id = Some(a)

\* the body of the request of the step passes the validation of its schema
ClaimBodyValid ==
    last'.op = "decommission_asset" => Len(last'.reason[1]) >= 10

\* C12: a lifecycle request that fails changes nothing: Assign, Unassign or
\* Decommission on a decommissioned asset and MarkFixed on an asset not in
\* repair answer 400 (InvalidTransition), any request for an unknown asset and
\* Assign to an unknown employee answer 404 (NotFound), and no asset, repair or
\* audit row changes.
C12_FailedRequestNoMutation ==
    [][\A a \in AssetIds :
          /\ (/\ assets[a].present /\ assets[a].status = DECOMMISSIONED
              /\ \/ ClaimRequested("assign_asset", a)
                 \/ ClaimRequested("decommission_asset", a))
                => (ClaimNoMutation /\ (ClaimBodyValid => last'.code = 400))
          /\ (/\ assets[a].present /\ assets[a].status # REPAIR
              /\ ClaimRequested("mark_asset_fixed", a))
                => (ClaimNoMutation /\ last'.code = 400)
          /\ (/\ ~assets[a].present
              /\ \E op \in {"update_asset", "assign_asset", "decommission_asset",
                             "delete_asset", "add_repair", "mark_asset_fixed"} :
                    ClaimRequested(op, a))
                => (ClaimNoMutation /\ (ClaimBodyValid => last'.code = 404))
          /\ (/\ ClaimInService(a)
              /\ ClaimRequested("assign_asset", a)
              /\ last'.employee # NULL
              /\ ~employees[last'.employee[1]].present)
                => (ClaimNoMutation /\ last'.code = 404)]_vars

C12_Witness ==
    \E a \in AssetIds, e \in EmployeeIds :
        /\ last = Request("assign_asset", Some(a), Some(e), NULL, 400)
        /\ employees[e].present
        /\ assets[a].status = DECOMMISSIONED
        /\ assets[a].assigned_to = NULL

\* C13: Assign(employee) on an asset that is available, active or in repair,
\* with an existing employee, succeeds and sets status active, assigned_to the
\* employee and assigned_date today, whoever held the asset before.
C13_AssignEffect ==
    [][\A a \in AssetIds, e \in EmployeeIds :
          (/\ ClaimRequested("assign_asset", a)
           /\ last'.employee = Some(e)
           /\ ClaimInService(a)
           /\ employees[e].present)
             => /\ last'.code = 200
                /\ assets'[a].status = ACTIVE
                /\ assets'[a].assigned_to = Some(e)
                /\ assets'[a].assigned_date = Some(now)]_vars

C13_Witness ==
    \E a \in AssetIds, e \in EmployeeIds :
        /\ last.op = "assign_asset" /\ last.id = Some(a)
        /\ last.employee = Some(e) /\ last.code = 200
        /\ now > 0
        /\ assets[a].assigned_date = Some(now)
        /\ audit[Len(audit)].changes.old_employee_id \notin {NULL, Some(e)}

\* C14: Unassign (an assign request without employee) on an asset that is
\* available, active or in repair succeeds and sets status available and
\* assigned_to and assigned_date null.
C14_UnassignEffect ==
    [][\A a \in AssetIds :
          (/\ ClaimRequested("assign_asset", a)
           /\ last'.employee = NULL
           /\ ClaimInService(a))
             => /\ last'.code = 200
                /\ assets'[a].status = AVAILABLE
                /\ assets'[a].assigned_to = NULL
                /\ assets'[a].assigned_date = NULL]_vars

C14_Witness ==
    \E a \in AssetIds :
        /\ last = Request("assign_asset", Some(a), NULL, NULL, 200)
        /\ assets[a].status = AVAILABLE
        /\ audit[Len(audit)].changes.old_employee_id # NULL

\* C15: Decommission with a valid reason on an asset that is not decommissioned
\* sets status decommissioned, decommission_date today, decommission_reason
\* the reason, and assigned_to and assigned_date null.
C15_DecommissionEffect ==
    [][\A a \in AssetIds :
          (/\ ClaimRequested("decommission_asset", a)
           /\ Len(last'.reason[1]) >= 10
           /\ ClaimInService(a))
             => /\ last'.code = 200
                /\ assets'[a].status = DECOMMISSIONED
                /\ assets'[a].decommission_date = Some(now)
                /\ assets'[a].decommission_reason = last'.reason
                /\ assets'[a].assigned_to = NULL
                /\ assets'[a].assigned_date = NULL]_vars

C15_Witness ==
    \E a \in AssetIds :
        /\ last.op = "decommission_asset" /\ last.id = Some(a) /\ last.code = 200
        /\ now > 0
        /\ assets[a].decommission_date = Some(now)
        /\ Len(audit) >= 2
        /\ audit[Len(audit) - 1].action = "ASSIGN"
        /\ audit[Len(audit) - 1].entity_id = Some(a)
        /\ audit[Len(audit) - 1].changes.new_employee_id # NULL

\* C16: a decommission whose reason has fewer than 10 characters is answered
\* 422 and changes no asset and no audit row; a reason of exactly 10 characters
\* is accepted and the decommission clears assigned_to and assigned_date.
C16_ReasonLength ==
    [][\A a \in AssetIds :
          ClaimRequested("decommission_asset", a)
             => /\ Len(last'.reason[1]) < 10
                   => (last'.code = 422 /\ ClaimNoMutation)
                /\ (Len(last'.reason[1]) = 10 /\ ClaimInService(a))
                   => /\ last'.code = 200
                      /\ assets'[a].status = DECOMMISSIONED
                      /\ assets'[a].assigned_to = NULL
                      /\ assets'[a].assigned_date = NULL]_vars

C16_Witness ==
    \E a \in AssetIds :
        /\ last.op = "decommission_asset" /\ last.id = Some(a) /\ last.code = 422
        /\ Len(last.reason[1]) = 9
        /\ assets[a].present
        /\ assets[a].status = ACTIVE
        /\ assets[a].assigned_to # NULL

\* C17: RecordRepair on an asset that is available, active or in repair sets
\* status repair, appends exactly one repair record of the asset and leaves
\* assigned_to and assigned_date as they were.
C17_RecordRepairEffect ==
    [][\A a \in AssetIds :
          (ClaimRequested("add_repair", a) /\ ClaimInService(a))
             => /\ assets'[a].status = REPAIR
                /\ repairs'[a] = repairs[a] + 1
                /\ assets'[a].assigned_to = assets[a].assigned_to
                /\ assets'[a].assigned_date = assets[a].assigned_date]_vars

\* C18: RecordRepair on a decommissioned asset fails with InvalidTransition
\* (400), appends no repair record and no audit row and leaves the asset
\* unchanged.
C18_RecordRepairRefused ==
    [][\A a \in AssetIds :
          (/\ ClaimRequested("add_repair", a)
           /\ assets[a].present
           /\ assets[a].status = DECOMMISSIONED)
             => (last'.code = 400 /\ ClaimNoMutation)]_vars

\* C19: MarkFixed on an asset in repair sets status active if assigned_to is
\* present and available otherwise, and changes no other field of the asset.
C19_MarkFixedEffect ==
    [][\A a \in AssetIds :
          (/\ ClaimRequested("mark_asset_fixed", a)
           /\ assets[a].present
           /\ assets[a].status = REPAIR)
             => /\ last'.code = 200
                /\ assets'[a] =
                      [assets[a] EXCEPT !.status =
                          IF assets[a].assigned_to # NULL THEN ACTIVE ELSE AVAILABLE]]_vars

C19_Witness ==
    \E a \in AssetIds :
        /\ last = Request("mark_asset_fixed", Some(a), NULL, NULL, 200)
        /\ assets[a].status = ACTIVE
        /\ assets[a].assigned_to # NULL

\* C20: Delete on an existing asset, whatever its status, removes the asset
\* row and appends one audit row for the deletion; every WarrantyNotification
\* row, those of the deleted asset included, and every other asset stay as
\* they were.
C20_DeleteEffect ==
    [][\A a \in AssetIds :
          (ClaimRequested("delete_asset", a) /\ assets[a].present)
             => /\ last'.code = 204
                /\ ~assets'[a].present
                /\ ClaimOneAuditRow("DELETE", a)
                /\ history' = history
                /\ \A b \in AssetIds \ {a} : assets'[b] = assets[b]]_vars

C20_Witness ==
    \E a \in AssetIds, b \in AssetIds :
        /\ a # b
        /\ last = Request("delete_asset", Some(a), NULL, NULL, 204)
        /\ ~assets[a].present
        /\ \E h \in history : h.asset_id = a
        /\ assets[b].present

\* C21: every step that changes a field of an asset, or creates or removes
\* its row, appends an audit row with entity_type "asset" and the id of that
\* asset as entity_id.
C21_AssetChangeAudited ==
    [][\A a \in AssetIds :
          assets'[a] # assets[a]
             => /\ Len(audit') = Len(audit) + 1
                /\ audit'[Len(audit')].entity_type = "asset"
                /\ audit'[Len(audit')].entity_id = Some(a)]_vars

\* C22: update_asset on an existing asset sets exactly the supplied fields
\* whose value differs from the stored one; it appends one UPDATE audit row
\* whose diff has exactly those fields, each with its old and its new value, and
\* none when nothing differs; assigned_to, assigned_date, decommission_date and
\* decommission_reason stay as they were.
C22_UpdateEffect ==
    [][\A a \in AssetIds :
          (ClaimRequested("update_asset", a) /\ assets[a].present)
             => LET u == last'.body[1]
                    supplied(f) == SuppliedValue(f, u.status, u.warranty_end)
                    differs == {f \in u.fields : FieldOf(assets[a], f) # supplied(f)}
                    row == audit'[Len(audit')]
                IN  /\ last'.code = 200
                    /\ \A f \in UpdateFields :
                          FieldOf(assets'[a], f) =
                             IF f \in differs THEN supplied(f) ELSE FieldOf(assets[a], f)
                    /\ IF differs = {}
                       THEN audit' = audit
                       ELSE /\ ClaimOneAuditRow("UPDATE", a)
                            /\ row.entity_type = "asset"
                            /\ DOMAIN row.changes = differs
                            /\ \A f \in differs :
                                  row.changes[f] =
                                     [old |-> str(f, FieldOf(assets[a], f)),
                                      new |-> str(f, FieldOf(assets'[a], f))]
                    /\ assets'[a].assigned_to = assets[a].assigned_to
                    /\ assets'[a].assigned_date = assets[a].assigned_date
                    /\ assets'[a].decommission_date = assets[a].decommission_date
                    /\ assets'[a].decommission_reason = assets[a].decommission_reason]_vars

C22_Witness ==
    \E a \in AssetIds :
        /\ last.op = "update_asset" /\ last.id = Some(a) /\ last.code = 200
        /\ last.body[1].fields = UpdateFields
        /\ audit[Len(audit)].action = "UPDATE"
        /\ DOMAIN audit[Len(audit)].changes = {"warranty_end"}
        /\ audit[Len(audit)].changes["warranty_end"] = [old |-> "None", new |-> "40"]
        /\ assets[a].assigned_to # NULL

\* C23: when an Assign that waited for its e-mail commits after one
\* Decommission of the same asset was served meanwhile, the asset row is the
\* one that results from running the two requests one after the other, in one
\* order or the other, from the row both requests found.
C23_OverlapSerialisable ==
    [][(/\ pending # NULL
        /\ pending' = NULL
        /\ Len(pending[1].overlapped) = 1
        /\ pending[1].overlapped[1].op = "decommission_asset")
          => LET p == pending[1]
                 d == p.overlapped[1]
                 assignFirst ==
                     Decommissioned(Assigned(p.loaded, p.employee, p.today),
                                    d.reason[1], d.today)
                 \* the Assign is refused after the Decommission
                 decommissionFirst == Decommissioned(p.loaded, d.reason[1], d.today)
             IN  assets'[p.asset] \in {assignFirst, decommissionFirst}]_vars

ClaimLifecycleFields ==
    {"status", "assigned_to", "assigned_date", "decommission_date",
     "decommission_reason"}

\* the keys of the diff of an audit row; a row written without changes has none
ClaimDiffKeys(row) == IF row.action = "MARK_FIXED" THEN {} ELSE DOMAIN row.changes

\* the diff of the row gives the old and the new value of field f, under the
\* name of the field or, for assigned_to, as old and new employee id
ClaimDiffCovers(row, f, old, new) ==
    \/ /\ f \in ClaimDiffKeys(row)
       /\ row.changes[f] = [old |-> old, new |-> new]
    \/ /\ f = "assigned_to"
       /\ {"old_employee_id", "new_employee_id"} \subseteq ClaimDiffKeys(row)
       /\ row.changes.old_employee_id = old
       /\ row.changes.new_employee_id = new

\* C29: the audit row written by a successful assign, unassign, decommission,
\* repair or mark-fixed request gives the old and the new value of every one
\* of status, assigned_to, assigned_date, decommission_date and
\* decommission_reason that the request changed.
C29_LifecycleDiffComplete ==
    [][\A a \in AssetIds :
          (/\ last'.op \in {"assign_asset", "decommission_asset", "add_repair",
                             "mark_asset_fixed"}
           /\ last'.id = Some(a)
           /\ last'.code = 200)
             => /\ Len(audit') = Len(audit) + 1
                /\ \A f \in ClaimLifecycleFields :
                      assets'[a][f] # assets[a][f]
                         => ClaimDiffCovers(audit'[Len(audit')], f,
                                            assets[a][f], assets'[a][f])]_vars

\* C32: decommission_date and decommission_reason of an asset are changed only
\* by a decommission request for it, assigned_date only by an assign, unassign
\* or decommission request for it, and after every step decommission_date and
\* decommission_reason are set exactly if the status is decommissioned.
C32_DateFieldsFrame ==
    [][\A a \in AssetIds :
          (assets[a].present /\ assets'[a].present)
             => /\ (\/ assets'[a].decommission_date # assets[a].decommission_date
                     \/ assets'[a].decommission_reason # assets[a].decommission_reason)
                      => (last'.op = "decommission_asset" /\ last'.id = Some(a))
                /\ assets'[a].assigned_date # assets[a].assigned_date
                      => /\ last'.op \in {"assign_asset", "decommission_asset"}
                         /\ last'.id = Some(a)
                /\ (/\ assets'[a].decommission_date # NULL
                     /\ assets'[a].decommission_reason # NULL)
                      <=> assets'[a].status = DECOMMISSIONED
                /\ assets'[a].decommission_date # NULL
                      <=> assets'[a].decommission_reason # NULL]_vars

\* the five combinations of status and presence of assigned_to
ClaimCombinations ==
    {<<AVAILABLE, FALSE>>, <<ACTIVE, TRUE>>, <<REPAIR, FALSE>>, <<REPAIR, TRUE>>,
     <<DECOMMISSIONED, FALSE>>}

ClaimCombination(asset) == <<asset.status, asset.assigned_to # NULL>>

\* C33: with assets created available and unassigned and only the five
\* lifecycle requests served, every asset is in one of the five combinations,
\* and the two combinations with status repair are entered: a repair request on
\* an available unassigned asset gives (repair, no) and one on an active
\* assigned asset gives (repair, yes).
C33_ReachableCombinations ==
    [][\A a \in AssetIds :
          /\ assets'[a].present => ClaimCombination(assets'[a]) \in ClaimCombinations
          /\ (/\ ClaimRequested("add_repair", a)
               /\ assets[a].present
               /\ ClaimCombination(assets[a]) \in {<<AVAILABLE, FALSE>>, <<ACTIVE, TRUE>>})
                 => ClaimCombination(assets'[a])
                       = <<REPAIR, assets[a].assigned_to # NULL>>]_vars

C37_AssignIgnoresDelivery ==
    [][\A a \in AssetIds, e \in EmployeeIds :
          (/\ ClaimRequested("assign_asset", a)
           /\ last'.employee = Some(e)
           /\ ClaimInService(a)
           /\ employees[e].present)
             => /\ last'.body[1].sent \in BOOLEAN
                /\ last'.code = 200
                /\ assets'[a] = [assets[a] EXCEPT !.status = ACTIVE,
                                                  !.assigned_to = Some(e),
                                                  !.assigned_date = Some(now)]
                /\ ClaimOneAuditRow("ASSIGN", a)
                /\ audit'[Len(audit')].changes =
                      [old_employee_id |-> assets[a].assigned_to,
                       new_employee_id |-> Some(e)]]_vars

C37_Witness ==
    \E a \in AssetIds, e \in EmployeeIds :
        /\ last.op = "assign_asset" /\ last.id = Some(a)
        /\ last.employee = Some(e) /\ last.code = 200
        /\ last.body # NULL
        /\ ~last.body[1].sent
        /\ assets[a].status = ACTIVE
        /\ assets[a].assigned_to = Some(e)
        /\ assets[a].assigned_date = Some(now)
        /\ audit[Len(audit)].action = "ASSIGN"
        /\ audit[Len(audit)].changes.new_employee_id = Some(e)

---------------------------------------------------------------------------
(* Claims about the classifier.  The statements below spell the thresholds
   and windows out as the specification gives them. *)

\* the tier of a days_remaining value
ClaimTier(days) ==
    IF days < 0 THEN "expired"
    ELSE IF 0 <= days /\ days <= 30 THEN "30_day"
    ELSE IF 31 <= days /\ days <= 90 THEN "90_day"
    ELSE "none"

\* the cooldown window of a notification type, in days
ClaimWindow(t) ==
    IF t = "expired" THEN 30 ELSE IF t = "30_day" THEN 7 ELSE 14

\* the asset is one the run fetches: not decommissioned, warranty_end present
ClaimFetched(a) ==
    /\ assets[a].present
    /\ assets[a].status # DECOMMISSIONED
    /\ assets[a].warranty_end # NULL

ClaimDays(a) == assets[a].warranty_end[1] - now

\* the history holds a row of that asset and type inside the type's window
ClaimInCooldown(a, t) ==
    \E h \in history : /\ h.asset_id = a
                       /\ h.notification_type = t
                       /\ now - h.sent_at <= ClaimWindow(t)

\* run r makes its call in this step
ClaimCalled(r) == runs'[r].calls # runs[r].calls

SameKey(x, y, tx, ty) == x.asset_id = y.asset_id /\ tx = ty

\* the same as ClaimInCooldown, in the state after the step
ClaimInCooldownAfter(a, t) ==
    \E h \in history' : /\ h.asset_id = a
                        /\ h.notification_type = t
                        /\ now' - h.sent_at <= ClaimWindow(t)

\* C11: when no active admin or technician address exists, a run calls the
\* notifier for no list and writes no history row, so that an asset that was
\* not in cooldown in that run is not in cooldown for the next one.
C11_NoRecipients ==
    [][\A r \in RunIds :
          (ClaimCalled(r) /\ users = {})
             => /\ runs'[r].pc = "idle"
                /\ deliveries' = deliveries
                /\ history' = history
                /\ \A a \in AssetIds, t \in NotificationTypes :
                      ~ClaimInCooldown(a, t) => ~ClaimInCooldownAfter(a, t)]_vars

C11_Witness ==
    /\ phase = "failedAgain"
    /\ users = {}
    /\ history = {}
    /\ \E a \in AssetIds : ClaimFetched(a) /\ ClaimTier(ClaimDays(a)) = "expired"

\* the place of a notification type in the order expired, 30_day, 90_day
ClaimPosition(t) == IF t = "expired" THEN 1 ELSE IF t = "30_day" THEN 2 ELSE 3

\* C24: when the send of one list returns, failed or not, the run goes on to
\* its next non-empty list, with its lists as they were; a send that succeeded
\* records a row for each asset of its list; a send that failed records none,
\* and the assets of its list are not in cooldown for the next run.
C24_BatchFailureIsolated ==
    [][\A r \in RunIds :
          (runs[r].pc # "idle" /\ runs'[r] # runs[r])
             => LET t == runs[r].pc
                    lists == runs[r].batch
                    later == {u \in NotificationTypes :
                                 ClaimPosition(u) > ClaimPosition(t) /\ lists[u] # {}}
                IN  /\ IF later = {}
                       THEN runs'[r].pc = "idle"
                       ELSE /\ runs'[r].pc \in later
                            /\ \A u \in later :
                                  ClaimPosition(runs'[r].pc) <= ClaimPosition(u)
                            /\ runs'[r].batch = lists
                    /\ deliveries' # deliveries
                          => \A a \in lists[t] :
                                \E h \in history' \ history :
                                   h.asset_id = a /\ h.notification_type = t
                    /\ deliveries' = deliveries
                          => /\ history' = history
                             /\ \A a \in lists[t] : ~ClaimInCooldownAfter(a, t)]_vars

C24_Witness ==
    /\ phase = "run1f"
    /\ runs["scheduled"].pc \in {"30_day", "90_day"}
    /\ runs["scheduled"].batch["expired"] # {}
    /\ history = {}
    /\ deliveries = {}

\* C25: when the processing of one fetched asset raises in the loop of a run,
\* every other fetched asset that classifies into a tier and is not in cooldown
\* is still put in the list of its tier by that run.
C25_ClassificationErrorSkipsAsset ==
    [][\A r \in RunIds, a \in AssetIds :
          (/\ ClaimCalled(r)
           /\ last'.op = "ClassificationError"
           /\ last'.id = Some(a)
           /\ users # {})
             => \A b \in AssetIds \ {a} :
                   LET t == ClaimTier(ClaimDays(b))
                   IN  (ClaimFetched(b) /\ t # "none" /\ ~ClaimInCooldown(b, t))
                          => b \in runs'[r].batch[t]]_vars

\* C26: no step removes or alters a row of the history: every row of the
\* history is still a row of it after every step, whether the step belongs to
\* a run or is a create, update, assign, decommission or delete of an asset or
\* the deactivation of an employee.
C26_HistoryAppendOnly ==
    [][history \subseteq history']_vars

C26_Witness ==
    \E a \in HistoryAssetIds, e \in HistoryEmployeeIds :
        /\ last = Request("delete_asset", Some(a), NULL, NULL, 204)
        /\ ~assets[a].present
        /\ \E h \in history : h.asset_id = a /\ h.sent_at < now
        /\ employees[e].present /\ ~employees[e].is_active

\* the notifier delivered a list of type t that held asset a, inside the
\* window of t
ClaimDelivered(a, t) ==
    \E d \in deliveries : /\ d.asset_id = a
                          /\ d.type = t
                          /\ now - d.at <= ClaimWindow(t)

\* C27: with the job called again and again and a notifier that does not fail
\* forever, whenever recipients exist and a fetched asset is in a tier with no
\* row of the tier's type inside the window, later either the asset has been
\* delivered in a list of that type and has its row, or it has left the tier
\* or the fetched assets.
C27_RetriedUntilDelivered ==
    \A a \in AssetIds, t \in NotificationTypes :
        (/\ users # {}
         /\ ClaimFetched(a)
         /\ ClaimTier(ClaimDays(a)) = t
         /\ ~ClaimInCooldown(a, t))
           ~> (\/ ClaimDelivered(a, t) /\ ClaimInCooldown(a, t)
               \/ ~ClaimFetched(a)
               \/ ClaimTier(ClaimDays(a)) # t)

C27_Witness ==
    /\ phase = "failedAgain"
    /\ users # {}
    /\ AllIdle
    /\ \E a \in AssetIds : ClaimFetched(a) /\ ClaimTier(ClaimDays(a)) # "none"
    /\ \A a \in AssetIds :
          (ClaimFetched(a) /\ ClaimTier(ClaimDays(a)) # "none")
             => /\ ClaimDelivered(a, ClaimTier(ClaimDays(a)))
                /\ ClaimInCooldown(a, ClaimTier(ClaimDays(a)))

\* C30: a run puts every fetched asset that is in a tier and not in cooldown
\* in the list of that tier and in no other list; it calls the notifier for a
\* list only if the list is not empty, and for the types in the order expired,
\* 30_day, 90_day, each at most once, so at most three times.
C30_OneBatchOneCall ==
    [][\A r \in RunIds :
          /\ (ClaimCalled(r) /\ users # {})
                => \A a \in AssetIds :
                      LET t == ClaimTier(ClaimDays(a))
                      IN  (ClaimFetched(a) /\ t # "none" /\ ~ClaimInCooldown(a, t))
                             => /\ a \in runs'[r].batch[t]
                                /\ \A u \in NotificationTypes \ {t} :
                                      a \notin runs'[r].batch[u]
          /\ runs'[r].pc # "idle" => runs'[r].batch[runs'[r].pc] # {}
          /\ (runs[r].pc # "idle" /\ runs'[r].pc # "idle" /\ runs'[r] # runs[r])
                => ClaimPosition(runs'[r].pc) > ClaimPosition(runs[r].pc)
          /\ (runs[r].pc # "idle" /\ runs'[r].pc # "idle")
                => ~ClaimCalled(r)]_vars

C30_Witness ==
    \E r \in RunIds, a \in AssetIds, b \in AssetIds :
        /\ runs[r].pc = "90_day"
        /\ runs[r].batch["expired"] = {a}
        /\ runs[r].batch["30_day"] = {}
        /\ runs[r].batch["90_day"] = {b}
        /\ \E d \in deliveries : d.asset_id = a /\ d.type = "expired" /\ d.at = now

\* C31: whatever requests changed the status of assets since the run fetched
\* them, when a send of the run returns the run writes a row for an asset and a
\* type exactly if the send delivered and the asset is in the list of that
\* type, and the run goes on to its next non-empty list.
C31_MidRunConsistent ==
    [][\A r \in RunIds :
          (runs[r].pc # "idle" /\ runs'[r] # runs[r])
             => LET t == runs[r].pc
                    lists == runs[r].batch
                    delivered == {d.asset_id : d \in deliveries' \ deliveries}
                    later == {u \in NotificationTypes :
                                 ClaimPosition(u) > ClaimPosition(t) /\ lists[u] # {}}
                IN  /\ delivered \in {{}, lists[t]}
                    /\ \A a \in AssetIds, u \in NotificationTypes :
                          (\E h \in history' \ history :
                              h.asset_id = a /\ h.notification_type = u)
                             <=> (a \in delivered /\ u = t)
                    /\ \A u \in later :
                          /\ runs'[r].pc # "idle"
                          /\ ClaimPosition(runs'[r].pc) <= ClaimPosition(u)
                          /\ runs'[r].batch[u] = lists[u]]_vars

C31_Witness ==
    \E a \in AssetIds :
        /\ last.op = "decommission_asset" /\ last.id = Some(a) /\ last.code = 200
        /\ last.body[1].awaited = "expired"
        /\ last.body[1].listed
        /\ assets[a].status = DECOMMISSIONED
        /\ \E h \in history :
              h.asset_id = a /\ h.notification_type = "expired" /\ h.sent_at = now
        /\ runs["scheduled"].pc = "90_day"

\* the common name of a class under its four names
ClaimClass(name) ==
    IF name \in {"expired", "warranties_expired"} THEN "expired"
    ELSE IF name \in {"30_day", "critical_30", "critical", "warranties_30"}
         THEN "critical-30"
    ELSE IF name \in {"90_day", "warning_90", "warning", "warranties_90"}
         THEN "warning-90"
    ELSE "none"

\* the assets the run puts in class c today
ClaimInClass(c) ==
    {a \in Candidates(assets) : ClaimClass(Tier(days_remaining(assets[a], now))) = c}

\* C34: the run, the summary, the alerts and the dashboard counts select the
\* same assets, put every days_remaining value in the same class (expired,
\* critical-30, warning-90 or none), and what a read returns groups the assets
\* as the tiers of the run do.
C34_ClassifiersAgree ==
    /\ SummaryCandidates(assets) = Candidates(assets)
    /\ AlertCandidates(assets) = Candidates(assets)
    /\ StatsCandidates(assets) = Candidates(assets)
    /\ \A days \in (0 - 2) .. (WarningDays + 2) :
          /\ ClaimClass(SummaryBucket(days)) = ClaimClass(Tier(days))
          /\ ClaimClass(status_label(days)) = ClaimClass(Tier(days))
          /\ ClaimClass(StatsCounter(days)) = ClaimClass(Tier(days))
    /\ last.op = "get_warranty_summary"
          => \A k \in DOMAIN last.body[1] : last.body[1][k] = ClaimInClass(ClaimClass(k))
    /\ last.op = "get_warranty_alerts"
          => /\ DOMAIN last.body[1] = Candidates(assets) \ ClaimInClass("none")
             /\ \A a \in DOMAIN last.body[1] :
                   a \in ClaimInClass(ClaimClass(last.body[1][a]))
    /\ last.op = "get_dashboard_stats"
          => \A k \in DOMAIN last.body[1] :
                last.body[1][k] = Cardinality(ClaimInClass(ClaimClass(k)))

C34_Witness ==
    /\ last.op = "get_warranty_alerts"
    /\ \E a \in AssetIds, b \in AssetIds :
          /\ a \in DOMAIN last.body[1]
          /\ days_remaining(assets[a], now) = CriticalDays
          /\ last.body[1][a] = "critical"
          /\ assets[b].status = DECOMMISSIONED
          /\ assets[b].warranty_end # NULL
          /\ b \notin DOMAIN last.body[1]

C4_OnePerCooldown ==
    \A d1 \in deliveries, d2 \in deliveries :
        (SameKey(d1, d2, d1.type, d2.type) /\ d1.call # d2.call /\ d1.at <= d2.at)
           => d2.at - d1.at > ClaimWindow(d1.type)

C4_Witness ==
    \E d1 \in deliveries, d2 \in deliveries :
        /\ SameKey(d1, d2, d1.type, d2.type)
        /\ d1.call # d2.call
        /\ d1.type = "expired"

\* C5: overlapping runs never deliver the same asset under the same type twice
\* within the type's window, nor write two history rows for it in the window.
C5_NoDoubleDelivery ==
    /\ \A d1 \in deliveries, d2 \in deliveries :
          (SameKey(d1, d2, d1.type, d2.type) /\ d1.call # d2.call /\ d1.at <= d2.at)
             => d2.at - d1.at > ClaimWindow(d1.type)
    /\ \A h1 \in history, h2 \in history :
          (SameKey(h1, h2, h1.notification_type, h2.notification_type)
             /\ h1.id # h2.id /\ h1.sent_at <= h2.sent_at)
             => h2.sent_at - h1.sent_at > ClaimWindow(h1.notification_type)

\* C6: history rows are written only by a run whose send for a list succeeded,
\* and then exactly one row for each asset of that list, of the list's type,
\* stamped now; a failed send writes none.
C6_RowsOnlyAfterDelivery ==
    [][LET newRows == history' \ history
           newDeliveries == deliveries' \ deliveries
       IN  \/ newRows = {} /\ newDeliveries = {}
           \/ \E r \in RunIds :
                 /\ runs[r].pc # "idle"
                 /\ LET t == runs[r].pc
                        list == runs[r].batch[t]
                    IN  /\ newDeliveries # {}
                        /\ {d.asset_id : d \in newDeliveries} = list
                        /\ \A d \in newDeliveries : d.type = t
                        /\ \A a \in list :
                              Cardinality({h \in newRows : h.asset_id = a}) = 1
                        /\ \A h \in newRows : /\ h.asset_id \in list
                                              /\ h.notification_type = t
                                              /\ h.sent_at = now]_vars

C6_Witness ==
    \E h1 \in history, h2 \in history :
        /\ h1.asset_id # h2.asset_id
        /\ h1.notification_type = h2.notification_type
        /\ h1.sent_at = h2.sent_at
        /\ \E h3 \in history : h3.sent_at # h1.sent_at

\* C7: a fetched asset that classifies into a tier is left out of the tier's
\* list if and only if the history holds a row of that asset and that type
\* inside the type's window (30, 7, 14 days).
C7_CooldownSuppression ==
    [][\A r \in RunIds :
          (ClaimCalled(r) /\ users # {})
             => \A a \in AssetIds :
                   (ClaimFetched(a) /\ ClaimTier(ClaimDays(a)) # "none")
                      => LET t == ClaimTier(ClaimDays(a))
                         IN  (a \notin runs'[r].batch[t]) <=> ClaimInCooldown(a, t)]_vars

C7_Witness ==
    \E r \in RunIds, a \in AssetIds, b \in AssetIds :
        /\ runs[r].pc # "idle"
        /\ a # b
        /\ ClaimFetched(a) /\ ClaimFetched(b)
        /\ ClaimTier(ClaimDays(a)) = "expired"
        /\ ClaimInCooldown(a, "expired")
        /\ a \notin runs[r].batch["expired"]
        /\ b \in runs[r].batch[ClaimTier(ClaimDays(b))]
        /\ \E h \in history : h.asset_id = b

\* C8: the run classifies days_remaining < 0 as expired, 0..30 as 30_day,
\* 31..90 as 90_day and leaves out anything above 90.
C8_Classification ==
    [][\A r \in RunIds :
          (ClaimCalled(r) /\ users # {})
             => \A a \in AssetIds : ClaimFetched(a)
                   => /\ \A t \in NotificationTypes :
                            a \in runs'[r].batch[t] => t = ClaimTier(ClaimDays(a))
                      /\ ({h \in history : h.asset_id = a} = {}
                             /\ ClaimTier(ClaimDays(a)) # "none")
                            => a \in runs'[r].batch[ClaimTier(ClaimDays(a))]]_vars

C8_Witness ==
    \E r \in RunIds, a \in AssetIds, b \in AssetIds :
        /\ runs[r].pc # "idle"
        /\ ClaimFetched(a) /\ ClaimDays(a) = 30
        /\ a \in runs[r].batch["30_day"]
        /\ ClaimFetched(b) /\ ClaimDays(b) = 90
        /\ b \in runs[r].batch["90_day"]

\* C9: an asset that is decommissioned, or has no warranty_end, when the run
\* fetches is in none of the run's lists, and the run delivers and records
\* only assets of its lists.
C9_DecommissionedExcluded ==
    [][/\ \A r \in RunIds :
             IF ClaimCalled(r)
             THEN \A a \in AssetIds, t \in NotificationTypes :
                     ~ClaimFetched(a) => a \notin runs'[r].batch[t]
             ELSE runs'[r].batch \in {runs[r].batch, NoBatch}
       /\ \A a \in {d.asset_id : d \in deliveries' \ deliveries}
                \cup {h.asset_id : h \in history' \ history} :
             \E r \in RunIds : /\ runs[r].pc # "idle"
                               /\ a \in runs[r].batch[runs[r].pc]]_vars

C9_Witness ==
    \E a \in AssetIds, d \in deliveries :
        /\ assets[a].status = DECOMMISSIONED
        /\ assets[a].warranty_end = Some(-1)
        /\ d.asset_id # a
        /\ d.type = "expired"
        /\ d.at > assets[a].decommission_date[1]
        /\ \A e \in deliveries : e.asset_id # a

\* C10: an asset that classifies into a tier, with no row of that tier's type
\* inside its window, is in the tier's list whatever rows of other types the
\* history holds.
C10_NewTierAlerts ==
    [][\A r \in RunIds :
          (ClaimCalled(r) /\ users # {})
             => \A a \in AssetIds :
                   LET t == ClaimTier(ClaimDays(a))
                   IN  (/\ ClaimFetched(a)
                        /\ t # "none"
                        /\ \E h \in history : h.asset_id = a /\ h.notification_type # t
                        /\ ~ClaimInCooldown(a, t))
                          => a \in runs'[r].batch[t]]_vars

C10_Witness ==
    \E d1 \in deliveries, d2 \in deliveries :
        /\ d1.asset_id = d2.asset_id
        /\ d1.type = "90_day"
        /\ d2.type = "30_day"
        /\ d2.at - d1.at = 1

====
